---- MODULE Spec2Model ----
(***************************************************************************)
(* A model of the call tracker: the sqlite store of database.py (tables    *)
(* daily_targets, calls, contacts) and the operations of database.py and   *)
(* app.py that read and write it.                                          *)
(*                                                                         *)
(* Text is modelled as a sequence of ASCII codes, so that LOWER(), strip() *)
(* and the binary collation of sqlite are computed, not assumed.  A date   *)
(* 'YYYY-MM-DD' is modelled as the number YYYYMMDD, whose order is the     *)
(* order of the fixed-width strings that sqlite compares.                  *)
(***************************************************************************)
EXTENDS Integers, Sequences, FiniteSets, TLC

VARIABLES contacts, calls, daily_targets, seq_contacts, seq_calls, now, today,
          requests, reply

vars == <<contacts, calls, daily_targets, seq_contacts, seq_calls, now, today,
          requests, reply>>

store == <<contacts, calls, daily_targets, seq_contacts, seq_calls>>

-----------------------------------------------------------------------------
(* Bounds of the model. *)

\* The ids handed out by each AUTOINCREMENT table stop here.
MaxContactId == 2
MaxCallId == 2
\* A batch has at most this many names.
MaxBatch == 3

\* CURRENT_TIMESTAMP has a resolution of one second: the seconds of the model.
\* Only the order of the timestamps is read, and whether two of them are equal.
Seconds == {0, 1}

-----------------------------------------------------------------------------
(* Text. *)

Bob == <<66, 111, 98>>
bob == <<98, 111, 98>>
Al == <<65, 108>>
Space == <<32>>

Names == {Bob, bob, Al}

\* str.strip() removes these from both ends.
Whitespace == {9, 10, 11, 12, 13, 32}

\* sqlite's LOWER() and Python's str.upper() on ASCII text.
LowerChar(c) == IF c >= 65 /\ c <= 90 THEN c + 32 ELSE c

LOWER(s) == [i \in 1..Len(s) |-> LowerChar(s[i])]

RECURSIVE lstrip(_)
lstrip(s) ==
    IF s # <<>> /\ Head(s) \in Whitespace THEN lstrip(Tail(s)) ELSE s

RECURSIVE rstrip(_)
rstrip(s) ==
    IF s # <<>> /\ s[Len(s)] \in Whitespace
    THEN rstrip(SubSeq(s, 1, Len(s) - 1))
    ELSE s

strip(s) == rstrip(lstrip(s))

\* The BINARY collation: memcmp, then the shorter string first.
RECURSIVE TextLess(_, _)
TextLess(s, t) ==
    IF t = <<>> THEN FALSE
    ELSE IF s = <<>> THEN TRUE
    ELSE IF Head(s) # Head(t) THEN Head(s) < Head(t)
    ELSE TextLess(Tail(s), Tail(t))

-----------------------------------------------------------------------------
(* Dates. *)

IsoDate(year, month, day) == year * 10000 + month * 100 + day

Dates == {IsoDate(2024, 12, 31), IsoDate(2025, 1, 1), IsoDate(2025, 1, 2),
          IsoDate(2025, 1, 3)}

-----------------------------------------------------------------------------
(* The schema. *)

\* calls.response CHECK(response IN (...))
ResponseCheck == {"A", "B", "C", "NA", "DNP", "CATCHUP"}

NULL == "NULL"

\* The threads that serve requests, all through the one shared connection.
Threads == {1, 2}

\* A thread between two requests; raised is what its last request raised.
Idle(raised) ==
    [pc |-> "idle", name |-> <<>>, date |-> 0, skip_global_check |-> FALSE,
     raised |-> raised]

\* The answer of the last request that a handler of app.py served.
\* An answer without an encouraging message.
NoMessage == [text |-> <<>>, type |-> "none", emoji |-> <<>>]

NoReply ==
    [route |-> "none", status |-> 0, error |-> "", message |-> NoMessage,
     added |-> <<>>, skipped |-> <<>>]

Init ==
    /\ contacts = {}
    /\ calls = {}
    /\ daily_targets = {}
    /\ seq_contacts = 0
    /\ seq_calls = 0
    /\ now = 0
    /\ today = IsoDate(2024, 12, 31)
    /\ requests = [t \in Threads |-> Idle("none")]
    /\ reply = NoReply

-----------------------------------------------------------------------------
(* database.py: contacts. *)

\* The two tables a contact write touches: the rows and the AUTOINCREMENT counter.
ContactsDb == [rows |-> contacts, seq |-> seq_contacts]

\* SELECT 1 FROM contacts WHERE name = ? AND date = ?
contact_exists_for_date(rows, name, target_date) ==
    \E c \in rows : c.name = name /\ c.date = target_date

\* The lookup without LOWER(): it tells names apart by their case.
contact_exists_anywhere_Exact(rows, name) ==
    \E c \in rows : c.name = name

\* SELECT 1 FROM contacts WHERE LOWER(name) = LOWER(?)
contact_exists_anywhere(rows, name) ==
    \E c \in rows : LOWER(c.name) = LOWER(name)

\* UNIQUE(name, date), BINARY collation.
UniqueNameDate(rows, name, contact_date) ==
    ~ \E c \in rows : c.name = name /\ c.date = contact_date

\* The insert into a table declared without UNIQUE(name, date).
InsertContact_NoUnique(db, name, contact_date) ==
    [db |-> [rows |-> db.rows \cup
                        {[id |-> db.seq + 1, name |-> name,
                          date |-> contact_date, created_at |-> now]},
             seq |-> db.seq + 1],
     raised |-> "none",
     value |-> db.seq + 1]

\* INSERT INTO contacts (name, date) VALUES (?, ?); lastrowid; commit.
InsertContact(db, name, contact_date) ==
    IF ~ UniqueNameDate(db.rows, name, contact_date)
    THEN [db |-> db, raised |-> "IntegrityError", value |-> 0]
    ELSE [db |-> [rows |-> db.rows \cup
                            {[id |-> db.seq + 1, name |-> name,
                              date |-> contact_date, created_at |-> now]},
                  seq |-> db.seq + 1],
          raised |-> "none",
          value |-> db.seq + 1]

add_contact(db, name, contact_date, skip_global_check) ==
    IF contact_exists_for_date(db.rows, name, contact_date)
    THEN [db |-> db, raised |-> "ValueError", value |-> 0]
    ELSE IF ~ skip_global_check /\ contact_exists_anywhere(db.rows, name)
    THEN [db |-> db, raised |-> "ValueError", value |-> 0]
    ELSE InsertContact(db, name, contact_date)

\* DELETE FROM contacts WHERE id = ?; rowcount > 0
delete_contact(rows, contact_id) ==
    [rows |-> {c \in rows : c.id # contact_id},
     value |-> \E c \in rows : c.id = contact_id]

AddContact(name, contact_date, skip_global_check) ==
    /\ seq_contacts < MaxContactId
    /\ LET r == add_contact(ContactsDb, name, contact_date, skip_global_check)
       IN /\ contacts' = r.db.rows
          /\ seq_contacts' = r.db.seq
    /\ UNCHANGED <<calls, daily_targets, seq_calls, now, today, requests, reply>>

DeleteContact(contact_id) ==
    /\ LET r == delete_contact(contacts, contact_id)
       IN /\ contacts' = r.rows
    /\ UNCHANGED <<calls, daily_targets, seq_contacts, seq_calls, now, today, requests, reply>>

-----------------------------------------------------------------------------
(* database.py: calls. *)

\* INSERT INTO calls (name, response, date) VALUES (?, ?, ?); lastrowid; commit.
add_call(db, name, response, call_date) ==
    IF response \notin ResponseCheck
    THEN [db |-> db, raised |-> "IntegrityError", value |-> 0]
    ELSE [db |-> [rows |-> db.rows \cup
                            {[id |-> db.seq + 1, name |-> name, response |-> response,
                              date |-> call_date, created_at |-> now]},
                  seq |-> db.seq + 1],
          raised |-> "none",
          value |-> db.seq + 1]

\* The update without its WHERE clause: it writes the outcome to every call.
update_call_AllRows(rows, call_id, response) ==
    IF response \notin ResponseCheck /\ rows # {}
    THEN [rows |-> rows, raised |-> "IntegrityError", value |-> FALSE]
    ELSE [rows |-> {[c EXCEPT !.response = response] : c \in rows},
          raised |-> "none",
          value |-> rows # {}]

\* UPDATE calls SET response = ? WHERE id = ?; rowcount > 0
update_call(rows, call_id, response) ==
    IF response \notin ResponseCheck /\ \E c \in rows : c.id = call_id
    THEN [rows |-> rows, raised |-> "IntegrityError", value |-> FALSE]
    ELSE [rows |-> {IF c.id = call_id THEN [c EXCEPT !.response = response] ELSE c :
                    c \in rows},
          raised |-> "none",
          value |-> \E c \in rows : c.id = call_id]

\* DELETE FROM calls WHERE id = ?; rowcount > 0
delete_call(rows, call_id) ==
    [rows |-> {c \in rows : c.id # call_id},
     value |-> \E c \in rows : c.id = call_id]

AddCall(name, response, call_date) ==
    /\ seq_calls < MaxCallId
    /\ LET r == add_call([rows |-> calls, seq |-> seq_calls], name, response, call_date)
       IN /\ calls' = r.db.rows
          /\ seq_calls' = r.db.seq
    /\ UNCHANGED <<contacts, daily_targets, seq_contacts, now, today, requests, reply>>

UpdateCall(call_id, response) ==
    /\ LET r == update_call(calls, call_id, response)
       IN /\ calls' = r.rows
    /\ UNCHANGED <<contacts, daily_targets, seq_contacts, seq_calls, now, today, requests, reply>>

DeleteCall(call_id) ==
    /\ LET r == delete_call(calls, call_id)
       IN /\ calls' = r.rows
    /\ UNCHANGED <<contacts, daily_targets, seq_contacts, seq_calls, now, today, requests, reply>>

-----------------------------------------------------------------------------
(* Helpers of the queries. *)

Max(S) == CHOOSE x \in S : \A y \in S : y <= x

Min(S) == CHOOSE x \in S : \A y \in S : x <= y

\* The orders in which an ORDER BY may return the rows: every arrangement of them
\* in which no row comes before one that sorts before it; rows that tie come in
\* any order.
OrderBy(rows, Before(_, _)) ==
    {s \in [1..Cardinality(rows) -> rows] :
        /\ \A i, j \in DOMAIN s : i # j => s[i] # s[j]
        /\ \A i, j \in DOMAIN s : i < j => ~ Before(s[j], s[i])}

\* ORDER BY date DESC, created_at DESC LIMIT 1 over the calls of a name: the
\* calls that may come first.  Two calls logged for the same date within the
\* same second tie, and sqlite may return either.
FirstByDateCreatedDesc(name) ==
    {k \in calls :
        /\ k.name = name
        /\ \A o \in calls : o.name = name =>
              \/ o.date < k.date
              \/ o.date = k.date /\ o.created_at <= k.created_at}

\* One way for a statement to break the ties: the call it takes as the latest
\* of each name that has calls.
TieBreaks ==
    LET called == {k.name : k \in calls}
    IN {f \in [called -> calls] : \A n \in called : f[n] \in FirstByDateCreatedDesc(n)}

-----------------------------------------------------------------------------
(* database.py: get_contacts_for_date. *)

\* (SELECT response FROM calls WHERE calls.name = c.name
\*  ORDER BY date DESC, created_at DESC LIMIT 1)
LastResponse(latest, name) ==
    IF name \in DOMAIN latest THEN latest[name].response ELSE NULL

\* A WHERE clause without its last rule: a contact of an earlier day that was
\* called on target_date and answered is dropped from the list.
ContactsForDateWhere_NoHandled(c, target_date, latest) ==
    \/ c.date = target_date
    \/ c.date < target_date /\ ~ \E k \in calls : k.name = c.name
    \/ c.date < target_date /\ LastResponse(latest, c.name) = "DNP"

\* A WHERE clause that carries every contact of an earlier day forward.
ContactsForDateWhere_AllEarlier(c, target_date, latest) ==
    c.date <= target_date

\* The WHERE clause, for one row c of contacts.
ContactsForDateWhere(c, target_date, latest) ==
    \/ c.date = target_date
    \/ c.date < target_date /\ ~ \E k \in calls : k.name = c.name
    \/ c.date < target_date /\ LastResponse(latest, c.name) = "DNP"
    \/ c.date < target_date
       /\ \E k \in calls : k.name = c.name /\ k.date = target_date

\* CASE WHEN EXISTS (SELECT 1 FROM calls WHERE calls.name = c.name
\*                   AND calls.date = ?) THEN 1 ELSE 0 END
HasCallToday(name, target_date) ==
    IF \E k \in calls : k.name = name /\ k.date = target_date THEN 1 ELSE 0

\* The rows that pass the WHERE clause, GROUP BY c.name.
ContactsForDateGroup(name, target_date, latest) ==
    {c \in contacts : c.name = name /\ ContactsForDateWhere(c, target_date, latest)}

\* The SELECT list, for the group of a name.
ContactsForDateRow(name, target_date, latest) ==
    LET g == ContactsForDateGroup(name, target_date, latest)
    IN [id |-> Max({c.id : c \in g}),
        name |-> name,
        added_date |-> Max({c.date : c \in g}),
        has_call_today |-> HasCallToday(name, target_date)]

\* An ORDER BY without has_call_today: MIN(c.created_at) ASC alone.
ContactsForDateBefore_NoFlag(r1, r2, target_date, latest) ==
    LET created(r) ==
            Min({c.created_at : c \in ContactsForDateGroup(r.name, target_date, latest)})
    IN created(r1) < created(r2)

\* ORDER BY has_call_today DESC, MIN(c.created_at) ASC
ContactsForDateBefore(r1, r2, target_date, latest) ==
    LET created(r) ==
            Min({c.created_at : c \in ContactsForDateGroup(r.name, target_date, latest)})
    IN \/ r1.has_call_today > r2.has_call_today
       \/ r1.has_call_today = r2.has_call_today /\ created(r1) < created(r2)

\* The lists get_contacts_for_date(target_date) may return in this state.
get_contacts_for_date(target_date) ==
    UNION {
        LET names == {c.name : c \in {c \in contacts :
                                        ContactsForDateWhere(c, target_date, latest)}}
            rows == {ContactsForDateRow(n, target_date, latest) : n \in names}
            Before(r1, r2) == ContactsForDateBefore(r1, r2, target_date, latest)
        IN OrderBy(rows, Before) :
        latest \in TieBreaks}

-----------------------------------------------------------------------------
(* database.py: get_all_contacts_summary. *)

\* filters: None, or a list of response types.
None == [none |-> TRUE, items |-> <<>>]

List(items) == [none |-> FALSE, items |-> items]

\* Python's truth value of None and of a list.
Truthy(filters) == ~ filters.none /\ Len(filters.items) > 0

\* x in filters
In(x, filters) == \E i \in DOMAIN filters.items : filters.items[i] = x

\* contacts c LEFT JOIN latest (rn = 1) LEFT JOIN dnp_counts GROUP BY c.name: one
\* row per name.  c.id and c.date are bare columns of the group, which sqlite
\* takes from a row of the group it chooses: bare[name].  latest[name] is the
\* call that ROW_NUMBER() OVER (PARTITION BY name ORDER BY date DESC,
\* created_at DESC) numbers 1.
SummaryRow(name, latest, bare) ==
    LET called == name \in DOMAIN latest
        latest_response == IF called THEN latest[name].response ELSE NULL
    IN [id |-> bare[name].id,
        name |-> name,
        added_date |-> bare[name].date,
        latest_response |-> latest_response,
        last_called_date |-> IF called THEN latest[name].date ELSE NULL,
        dnp_count |-> Cardinality({k \in calls : k.name = name /\ k.response = "DNP"}),
        display_response |-> IF latest_response = NULL THEN "UN" ELSE latest_response]

\* ORDER BY CASE WHEN latest.response IS NULL THEN 1 ELSE 0 END,
\*          latest.date DESC, c.name ASC
SummaryBefore(r1, r2) ==
    LET null(r) == IF r.latest_response = NULL THEN 1 ELSE 0
    IN \/ null(r1) < null(r2)
       \/ /\ null(r1) = 0
          /\ null(r2) = 0
          /\ \/ r1.last_called_date > r2.last_called_date
             \/ r1.last_called_date = r2.last_called_date /\ TextLess(r1.name, r2.name)
       \/ null(r1) = 1 /\ null(r2) = 1 /\ TextLess(r1.name, r2.name)

\* A filter that tests the latest response, which is NULL for a contact never
\* called, so that the token UN selects nothing.
SummaryFilter_LatestResponse(results, filters) ==
    LET Keep(r) == In(r.latest_response, filters)
    IN IF Truthy(filters) THEN SelectSeq(results, Keep) ELSE results

\* results = [r for r in results if r['display_response'] in filters]
SummaryFilter(results, filters) ==
    LET Keep(r) == In(r.display_response, filters)
    IN IF Truthy(filters) THEN SelectSeq(results, Keep) ELSE results

\* The lists get_all_contacts_summary(filters) may return in this state.
get_all_contacts_summary(filters) ==
    LET names == {c.name : c \in contacts}
        Bare == {b \in [names -> contacts] : \A n \in names : b[n].name = n}
    IN UNION {
          {SummaryFilter(results, filters) :
              results \in OrderBy({SummaryRow(n, latest, bare) : n \in names},
                                  SummaryBefore)} :
          latest \in TieBreaks, bare \in Bare}

-----------------------------------------------------------------------------
(* database.py: add_contact, one statement at a time.  Every request runs in a
   thread of its own and all of them share one connection, so that the
   statements of two requests interleave. *)

\* A request to add a contact arrives.
BeginAddContact(t, name, contact_date, skip_global_check) ==
    /\ requests[t].pc = "idle"
    /\ requests' = [requests EXCEPT ![t] =
                       [pc |-> "exists_for_date", name |-> name, date |-> contact_date,
                        skip_global_check |-> skip_global_check, raised |-> "none"]]
    /\ UNCHANGED <<store, now, today, reply>>

\* if contact_exists_for_date(name, contact_date): raise ValueError
ExistsForDate(t) ==
    /\ requests[t].pc = "exists_for_date"
    /\ requests' = [requests EXCEPT ![t] =
          IF contact_exists_for_date(contacts, requests[t].name, requests[t].date)
          THEN Idle("ValueError")
          ELSE IF requests[t].skip_global_check
          THEN [requests[t] EXCEPT !.pc = "insert"]
          ELSE [requests[t] EXCEPT !.pc = "exists_anywhere"]]
    /\ UNCHANGED <<store, now, today, reply>>

\* if not skip_global_check and contact_exists_anywhere(name): raise ValueError
ExistsAnywhere(t) ==
    /\ requests[t].pc = "exists_anywhere"
    /\ requests' = [requests EXCEPT ![t] =
          IF contact_exists_anywhere(contacts, requests[t].name)
          THEN Idle("ValueError")
          ELSE [requests[t] EXCEPT !.pc = "insert"]]
    /\ UNCHANGED <<store, now, today, reply>>

\* cursor.execute("INSERT INTO contacts ..."); lastrowid; conn.commit()
Insert(t) ==
    /\ requests[t].pc = "insert"
    /\ LET r == InsertContact(ContactsDb, requests[t].name, requests[t].date)
       IN /\ r.db.seq <= MaxContactId
          /\ contacts' = r.db.rows
          /\ seq_contacts' = r.db.seq
          /\ requests' = [requests EXCEPT ![t] = Idle(r.raised)]
    /\ UNCHANGED <<calls, daily_targets, seq_calls, now, today, reply>>

-----------------------------------------------------------------------------
(* database.py: targets and statistics. *)

\* INSERT OR REPLACE INTO daily_targets (date, target) VALUES (?, ?)
set_daily_target(rows, target, target_date) ==
    {t \in rows : t.date # target_date} \cup {[date |-> target_date, target |-> target]}

SetDailyTarget(target, target_date) ==
    /\ daily_targets' = set_daily_target(daily_targets, target, target_date)
    /\ UNCHANGED <<contacts, calls, seq_contacts, seq_calls, now, today, requests,
                   reply>>

\* SELECT response, COUNT(*) as count FROM calls WHERE date = ? GROUP BY response
CountsByResponse(call_date) ==
    {[response |-> r,
      count |-> Cardinality({k \in calls : k.date = call_date /\ k.response = r})] :
        r \in {k.response : k \in {k \in calls : k.date = call_date}}}

\* The loop's pass with the total added up only for the outcomes written today:
\* a legacy CATCHUP call is counted under its key and left out of the total.
StatsRow_NoLegacy(stats, row) ==
    LET s1 == IF row.response \in DOMAIN stats
              THEN [stats EXCEPT ![row.response] = row.count]
              ELSE stats
        s2 == IF row.response \in {"A", "B", "C", "NA", "DNP"}
              THEN [s1 EXCEPT !.total = @ + row.count]
              ELSE s1
    IN IF row.response \in {"A", "B", "C"}
       THEN [s2 EXCEPT !.successful = @ + row.count]
       ELSE s2

\* One pass of the loop that reads a row of counts into stats.
StatsRow(stats, row) ==
    LET s1 == IF row.response \in DOMAIN stats
              THEN [stats EXCEPT ![row.response] = row.count]
              ELSE stats
        s2 == [s1 EXCEPT !.total = @ + row.count]
    IN IF row.response \in {"A", "B", "C"}
       THEN [s2 EXCEPT !.successful = @ + row.count]
       ELSE s2

\* for row in cursor.fetchall(): ...
RECURSIVE StatsLoop(_, _)
StatsLoop(stats, rows) ==
    IF rows = {} THEN stats
    ELSE LET row == CHOOSE r \in rows : TRUE
         IN StatsLoop(StatsRow(stats, row), rows \ {row})

get_today_stats(call_date) ==
    StatsLoop([A |-> 0, B |-> 0, C |-> 0, NA |-> 0, DNP |-> 0, CATCHUP |-> 0,
               total |-> 0, successful |-> 0],
              CountsByResponse(call_date))

\* The comparison that asks for more than the target.
Achieved_Strict(successful, target) == successful > target

\* successful >= target, for one day of the month that has a target.
Achieved(successful, target) == successful >= target

get_month_achievements(year, month) ==
    LET start_date == IsoDate(year, month, 1)
        end_date == IF month = 12
                    THEN IsoDate(year + 1, 1, 1)
                    ELSE IsoDate(year, month + 1, 1)
        targets == {t \in daily_targets : t.date >= start_date /\ t.date < end_date}
        counted == {k \in calls : /\ k.date >= start_date
                                  /\ k.date < end_date
                                  /\ k.response \in {"A", "B", "C"}}
        \* successful_counts.get(date_str, 0)
        successful(d) == Cardinality({k \in counted : k.date = d})
    IN [d \in {t.date : t \in targets} |->
          Achieved(successful(d), (CHOOSE t \in targets : t.date = d).target)]

-----------------------------------------------------------------------------
(* app.py: add_multiple_to_today. *)

\* The loop without its try: the first name that add_contact refuses ends it.
RECURSIVE BatchLoop_Abort(_, _, _, _)
BatchLoop_Abort(names, db, added, skipped) ==
    IF names = <<>> THEN [db |-> db, added |-> added, skipped |-> skipped]
    ELSE LET name == strip(Head(names))
         IN IF name = <<>>
            THEN BatchLoop_Abort(Tail(names), db, added, skipped)
            ELSE LET r == add_contact(db, name, today, TRUE)
                 IN IF r.raised = "none"
                    THEN BatchLoop_Abort(Tail(names), r.db, Append(added, name), skipped)
                    ELSE [db |-> r.db, added |-> added, skipped |-> Append(skipped, name)]

\* for name in names: ... with the lists added and skipped, and the database as
\* the calls of add_contact leave it.
RECURSIVE BatchLoop(_, _, _, _)
BatchLoop(names, db, added, skipped) ==
    IF names = <<>> THEN [db |-> db, added |-> added, skipped |-> skipped]
    ELSE LET name == strip(Head(names))
         IN IF name = <<>>
            THEN BatchLoop(Tail(names), db, added, skipped)
            ELSE LET r == add_contact(db, name, today, TRUE)
                 IN IF r.raised = "none"
                    THEN BatchLoop(Tail(names), r.db, Append(added, name), skipped)
                    ELSE BatchLoop(Tail(names), r.db, added, Append(skipped, name))

add_multiple_to_today(db, names) ==
    IF names = <<>>
    THEN [db |-> db, status |-> 400, added |-> <<>>, skipped |-> <<>>]
    ELSE LET r == BatchLoop(names, db, <<>>, <<>>)
         IN [db |-> r.db, status |-> 200, added |-> r.added, skipped |-> r.skipped]

AddMultipleToToday(names) ==
    LET r == add_multiple_to_today(ContactsDb, names)
    IN /\ r.db.seq <= MaxContactId
       /\ contacts' = r.db.rows
       /\ seq_contacts' = r.db.seq
       /\ reply' = [route |-> "/add-multiple-to-today", status |-> r.status,
                    error |-> IF r.status = 400 THEN "Names are required" ELSE "",
                    message |-> NoMessage,
                    added |-> r.added, skipped |-> r.skipped]
       /\ UNCHANGED <<calls, daily_targets, seq_calls, now, today, requests>>

-----------------------------------------------------------------------------
(* app.py: add_call and update_call. *)

\* Python's str.upper() on ASCII text.
UpperChar(c) == IF c >= 97 /\ c <= 122 THEN c - 32 ELSE c

upper(s) == [i \in 1..Len(s) |-> UpperChar(s[i])]

\* The outcomes as the text of a request.
TextA == <<65>>
TextB == <<66>>
TextC == <<67>>
TextNA == <<78, 65>>
TextDNP == <<68, 78, 80>>
TextCATCHUP == <<67, 65, 84, 67, 72, 85, 80>>

\* The value of calls.response that a text is; a text that is none of the six
\* outcomes of the schema is a value the CHECK refuses.
Outcome(text) ==
    CASE text = TextA -> "A"
      [] text = TextB -> "B"
      [] text = TextC -> "C"
      [] text = TextNA -> "NA"
      [] text = TextDNP -> "DNP"
      [] text = TextCATCHUP -> "CATCHUP"
      [] OTHER -> "X"

\* A validation that lets the legacy outcome through.
ValidResponses_Legacy == {TextA, TextB, TextC, TextNA, TextDNP, TextCATCHUP}

\* if response not in ("A", "B", "C", "NA", "DNP")
ValidResponses == {TextA, TextB, TextC, TextNA, TextDNP}

\* The texts of the messages, as the code points of their characters.
\* "You're on Rampage, let's get it done!"
RampageText ==
    <<89, 111, 117, 39, 114, 101, 32, 111, 110, 32, 82, 97, 109, 112, 97, 103,
      101, 44, 32, 108, 101, 116, 39, 115, 32, 103, 101, 116, 32, 105, 116,
      32, 100, 111, 110, 101, 33>>

\* "Target achieved! Keep the momentum going!"
AchievedText ==
    <<84, 97, 114, 103, 101, 116, 32, 97, 99, 104, 105, 101, 118, 101, 100,
      33, 32, 75, 101, 101, 112, 32, 116, 104, 101, 32, 109, 111, 109, 101,
      110, 116, 117, 109, 32, 103, 111, 105, 110, 103, 33>>

\* "Great, " and " to go!", around the number that remains.
GreatText == <<71, 114, 101, 97, 116, 44, 32>>

ToGoText == <<32, 116, 111, 32, 103, 111, 33>>

\* "Call this guy next time, let's go for next!"
FollowupText ==
    <<67, 97, 108, 108, 32, 116, 104, 105, 115, 32, 103, 117, 121, 32, 110,
      101, 120, 116, 32, 116, 105, 109, 101, 44, 32, 108, 101, 116, 39, 115,
      32, 103, 111, 32, 102, 111, 114, 32, 110, 101, 120, 116, 33>>

\* "Someone's waiting for your call. Let's reach till there!"
RetryText ==
    <<83, 111, 109, 101, 111, 110, 101, 39, 115, 32, 119, 97, 105, 116, 105,
      110, 103, 32, 102, 111, 114, 32, 121, 111, 117, 114, 32, 99, 97, 108,
      108, 46, 32, 76, 101, 116, 39, 115, 32, 114, 101, 97, 99, 104, 32, 116,
      105, 108, 108, 32, 116, 104, 101, 114, 101, 33>>

\* The emoji: high voltage, fire, party popper, trophy.
Zap == 9889
Fire == 128293
Party == 127881
Trophy == 127942

\* str(n) of an integer, as an f-string writes it.
RECURSIVE Str(_)
Str(n) ==
    IF n < 0 THEN <<45>> \o Str(0 - n)
    ELSE IF n < 10 THEN <<48 + n>>
    ELSE Str(n \div 10) \o <<48 + (n % 10)>>

\* The function without its first test: one call away from the target is
\* answered like any other distance.
get_encouraging_message_NoRampage(response, successful_count, target) ==
    LET remaining == target - successful_count
    IN IF response \in {"A", "B", "C"}
       THEN IF remaining <= 0
            THEN [text |-> AchievedText, type |-> "success", emoji |-> <<Party, Trophy>>]
            ELSE [text |-> GreatText \o Str(remaining) \o ToGoText,
                  type |-> "success", emoji |-> <<Party>>]
       ELSE IF response = "NA"
       THEN [text |-> FollowupText, type |-> "followup", emoji |-> <<Fire>>]
       ELSE [text |-> RetryText, type |-> "retry", emoji |-> <<Fire, Fire>>]

get_encouraging_message(response, successful_count, target) ==
    LET remaining == target - successful_count
    IN IF response \in {"A", "B", "C"} /\ remaining = 1
       THEN [text |-> RampageText, type |-> "rampage", emoji |-> <<Zap, Fire>>]
       ELSE IF response \in {"A", "B", "C"}
       THEN IF remaining <= 0
            THEN [text |-> AchievedText, type |-> "success", emoji |-> <<Party, Trophy>>]
            ELSE [text |-> GreatText \o Str(remaining) \o ToGoText,
                  type |-> "success", emoji |-> <<Party>>]
       ELSE IF response = "NA"
       THEN [text |-> FollowupText, type |-> "followup", emoji |-> <<Fire>>]
       ELSE [text |-> RetryText, type |-> "retry", emoji |-> <<Fire, Fire>>]

\* SELECT target FROM daily_targets WHERE date = ?; None without a row.
get_daily_target(target_date) ==
    IF \E t \in daily_targets : t.date = target_date
    THEN (CHOOSE t \in daily_targets : t.date = target_date).target
    ELSE NULL

\* database.get_daily_target(selected_date) or 0
TargetOrZero(selected_date) ==
    IF \E t \in daily_targets : t.date = selected_date
    THEN get_daily_target(selected_date)
    ELSE 0

\* The answer of a handler that changes nothing.
Refused(db, status, error) ==
    [db |-> db, status |-> status, error |-> error, outcome |-> NULL]

\* POST /add-call with the body {name, response, date}, on the table of calls.
post_add_call(db, name, response, selected_date) ==
    IF strip(name) = <<>> THEN Refused(db, 400, "Name is required")
    ELSE IF upper(response) \notin ValidResponses
    THEN Refused(db, 400, "Invalid response type")
    ELSE LET r == add_call(db, strip(name), Outcome(upper(response)), selected_date)
         IN IF r.raised # "none"
            THEN Refused(db, 500, r.raised)
            ELSE [db |-> r.db, status |-> 200, error |-> "",
                  outcome |-> Outcome(upper(response))]

\* POST /update-call with the body {call_id, response}, on the rows of calls.
post_update_call(rows, call_id, response) ==
    IF call_id = 0 THEN Refused(rows, 400, "Call ID is required")
    ELSE IF upper(response) \notin ValidResponses
    THEN Refused(rows, 400, "Invalid response type")
    ELSE LET r == update_call(rows, call_id, Outcome(upper(response)))
         IN IF r.raised # "none" THEN Refused(rows, 500, r.raised)
            ELSE IF r.value
            THEN [db |-> r.rows, status |-> 200, error |-> "",
                  outcome |-> Outcome(upper(response))]
            ELSE Refused(rows, 404, "Call not found")

\* POST /delete-call with the body {call_id}, on the rows of calls.
post_delete_call(rows, call_id) ==
    IF call_id = 0 THEN Refused(rows, 400, "Call ID is required")
    ELSE LET r == delete_call(rows, call_id)
         IN IF r.value
            THEN [db |-> r.rows, status |-> 200, error |-> "", outcome |-> NULL]
            ELSE Refused(rows, 404, "Call not found")

\* POST /delete-contact with the body {contact_id}, on the rows of contacts.
post_delete_contact(rows, contact_id) ==
    IF contact_id = 0 THEN Refused(rows, 400, "Contact ID is required")
    ELSE LET r == delete_contact(rows, contact_id)
         IN IF r.value
            THEN [db |-> r.rows, status |-> 200, error |-> "", outcome |-> NULL]
            ELSE Refused(rows, 404, "Contact not found")

\* The answer as the client gets it; message is the encouraging message of a
\* call that was logged or changed.
Answer(route, r, message) ==
    [route |-> route, status |-> r.status, error |-> r.error, message |-> message,
     added |-> <<>>, skipped |-> <<>>]

\* message = get_encouraging_message(response, stats["successful"], target), for
\* the outcome that was written; the handler reads stats and target after the
\* write.
Message(outcome, stats, target) ==
    IF outcome = NULL THEN NoMessage
    ELSE get_encouraging_message(outcome, stats.successful, target)

PostAddCall(name, response, selected_date) ==
    LET r == post_add_call([rows |-> calls, seq |-> seq_calls], name, response,
                           selected_date)
    IN /\ r.db.seq <= MaxCallId
       /\ calls' = r.db.rows
       /\ seq_calls' = r.db.seq
       /\ UNCHANGED <<contacts, daily_targets, seq_contacts, now, today, requests>>
       /\ reply' = Answer("/add-call", r,
                          Message(r.outcome, get_today_stats(selected_date)',
                                  TargetOrZero(selected_date)'))

PostUpdateCall(call_id, response) ==
    LET r == post_update_call(calls, call_id, response)
    IN /\ calls' = r.db
       /\ UNCHANGED <<contacts, daily_targets, seq_contacts, seq_calls, now, today,
                      requests>>
       /\ reply' = Answer("/update-call", r,
                          Message(r.outcome, get_today_stats(today)',
                                  TargetOrZero(today)'))

PostDeleteCall(call_id) ==
    LET r == post_delete_call(calls, call_id)
    IN /\ calls' = r.db
       /\ reply' = Answer("/delete-call", r, NoMessage)
       /\ UNCHANGED <<contacts, daily_targets, seq_contacts, seq_calls, now, today,
                      requests>>

PostDeleteContact(contact_id) ==
    LET r == post_delete_contact(contacts, contact_id)
    IN /\ contacts' = r.db
       /\ reply' = Answer("/delete-contact", r, NoMessage)
       /\ UNCHANGED <<calls, daily_targets, seq_contacts, seq_calls, now, today,
                      requests>>

-----------------------------------------------------------------------------
(* The environment: the wall clock. *)

\* A second passes: CURRENT_TIMESTAMP moves on.
Tick ==
    /\ now + 1 \in Seconds
    /\ now' = now + 1
    /\ UNCHANGED <<store, today, requests, reply>>

\* The days the wall clock passes through.
Days == {IsoDate(2024, 12, 31), IsoDate(2025, 1, 1), IsoDate(2025, 1, 2)}

\* Midnight passes: date.today() moves on.
NextDay ==
    /\ \E d \in Days : d > today
    /\ today' = Min({d \in Days : d > today})
    /\ UNCHANGED <<store, now, requests, reply>>

-----------------------------------------------------------------------------

(* The specifications.  Each draws the requests of the operations it is about
   from small sets. *)

\* The lists of the contacts and their calls.  Rows are only added here: the
\* queries read no id of a call, and the ids and the timestamps of the contacts
\* grow together, so that deleting or updating rows brings no other lists.
QueryNames == {Bob, bob}

QueryResponses == {"A", "DNP"}

QueryContactDates == {IsoDate(2024, 12, 31), IsoDate(2025, 1, 1)}

QueryCallDates == {IsoDate(2025, 1, 1), IsoDate(2025, 1, 3)}

Next ==
    \/ \E name \in QueryNames, d \in QueryContactDates, skip \in BOOLEAN :
          AddContact(name, d, skip)
    \/ \E name \in QueryNames, r \in QueryResponses, d \in QueryCallDates :
          AddCall(name, r, d)
    \/ Tick

Spec == Init /\ [][Next]_vars

\* The same requests, for the summary of the contacts.
SpecSummary == Init /\ [][Next]_vars

\* The contacts, added and deleted by one request at a time.
ContactDates == {IsoDate(2024, 12, 31), IsoDate(2025, 1, 1), IsoDate(2025, 1, 2)}

NextContacts ==
    \/ \E name \in Names, d \in ContactDates, skip \in BOOLEAN :
          AddContact(name, d, skip)
    \/ \E id \in 1..MaxContactId : DeleteContact(id)
    \/ Tick

SpecContacts == Init /\ [][NextContacts]_vars

\* The contacts, added by requests whose statements interleave.
RaceNames == {Bob, bob}

RaceDates == {IsoDate(2024, 12, 31), IsoDate(2025, 1, 1)}

NextRace ==
    \/ \E t \in Threads, name \in RaceNames, d \in RaceDates, skip \in BOOLEAN :
          BeginAddContact(t, name, d, skip)
    \/ \E t \in Threads : ExistsForDate(t)
    \/ \E t \in Threads : ExistsAnywhere(t)
    \/ \E t \in Threads : Insert(t)
    \/ \E id \in 1..MaxContactId : DeleteContact(id)

SpecRace == Init /\ [][NextRace]_vars

\* The calls and the targets.
StatsResponses == ResponseCheck \cup {"X"}

TargetInputs == {1, 2}

StatsDates == {IsoDate(2024, 12, 31), IsoDate(2025, 1, 1), IsoDate(2025, 1, 2)}

NextStats ==
    \/ \E r \in StatsResponses, d \in StatsDates : AddCall(Bob, r, d)
    \/ \E id \in 1..MaxCallId, r \in StatsResponses : UpdateCall(id, r)
    \/ \E id \in 1..MaxCallId : DeleteCall(id)
    \/ \E target \in TargetInputs, d \in StatsDates : SetDailyTarget(target, d)

SpecStats == Init /\ [][NextStats]_vars

\* The batches of names added to today's list.
BatchNames == {Bob, Space \o Bob \o Space, bob, Space \o Space}

BatchInputs == UNION {[1..n -> BatchNames] : n \in 0..MaxBatch}

NextBatch ==
    \/ \E names \in BatchInputs : AddMultipleToToday(names)
    \/ \E id \in 1..MaxContactId : DeleteContact(id)
    \/ NextDay

SpecBatch == Init /\ [][NextBatch]_vars

\* The requests that log a call and change its outcome.
ResponseTexts ==
    {TextA, <<97>>, TextB, TextC, TextNA, TextDNP, <<100, 110, 112>>, TextCATCHUP,
     <<99, 97, 116, 99, 104, 117, 112>>, <<88>>, <<>>}

CallNames == {Bob, Space \o Bob, Space}

CallDates == {IsoDate(2024, 12, 31), IsoDate(2025, 1, 1)}

NextOutcome ==
    \/ \E name \in CallNames, response \in ResponseTexts, d \in CallDates :
          PostAddCall(name, response, d)
    \/ \E id \in 0..MaxCallId, response \in ResponseTexts : PostUpdateCall(id, response)

SpecOutcome == Init /\ [][NextOutcome]_vars

\* The requests that change or delete a row by its id, on a store with rows in
\* all three tables.
ByIdDates == {IsoDate(2024, 12, 31), IsoDate(2025, 1, 1)}

ByIdResponses == {TextA, <<100, 110, 112>>, TextCATCHUP}

NextById ==
    \/ \E d \in ByIdDates : AddContact(Bob, d, TRUE)
    \/ AddCall(Bob, "A", IsoDate(2025, 1, 1))
    \/ SetDailyTarget(1, IsoDate(2025, 1, 1))
    \/ \E id \in 0..MaxCallId, response \in ByIdResponses : PostUpdateCall(id, response)
    \/ \E id \in 0..MaxCallId : PostDeleteCall(id)
    \/ \E id \in 0..MaxContactId : PostDeleteContact(id)

SpecById == Init /\ [][NextById]_vars

\* The calls logged and changed against the targets of the days.
MessageTargets == {1, 2, 12}

MessageDates == {IsoDate(2024, 12, 31), IsoDate(2025, 1, 1)}

MessageResponses == {TextA, TextNA, TextDNP}

NextMessage ==
    \/ \E target \in MessageTargets, d \in MessageDates : SetDailyTarget(target, d)
    \/ \E response \in MessageResponses, d \in MessageDates :
          PostAddCall(Bob, response, d)
    \/ \E id \in 1..MaxCallId, response \in MessageResponses :
          PostUpdateCall(id, response)

SpecMessage == Init /\ [][NextMessage]_vars

\* The contacts, added by requests that all make the global check and whose
\* statements interleave.
NextRaceGlobal ==
    \/ \E t \in Threads, name \in RaceNames, d \in RaceDates :
          BeginAddContact(t, name, d, FALSE)
    \/ \E t \in Threads : ExistsForDate(t)
    \/ \E t \in Threads : ExistsAnywhere(t)
    \/ \E t \in Threads : Insert(t)
    \/ \E id \in 1..MaxContactId : DeleteContact(id)

SpecRaceGlobal == Init /\ [][NextRaceGlobal]_vars

-----------------------------------------------------------------------------
(* The claims. *)

\* The days a list may be asked for.
QueryDates == Dates

RowNames(list) == {list[i].name : i \in DOMAIN list}

\* The calls of a name that no other call of that name exceeds by (date, created_at).
GreatestCalls(name) ==
    {k \in calls :
        /\ k.name = name
        /\ ~ \E o \in calls :
              /\ o.name = name
              /\ \/ o.date > k.date
                 \/ o.date = k.date /\ o.created_at > k.created_at}

RegisteredOn(name, D) == \E c \in contacts : c.name = name /\ c.date = D

RegisteredBefore(name, D) == \E c \in contacts : c.name = name /\ c.date < D

\* Rules (a), (b), (d), and rule (c) with the greatest call read as the given one.
ShownBy(name, D, greatest) ==
    \/ RegisteredOn(name, D)
    \/ RegisteredBefore(name, D) /\ ~ \E k \in calls : k.name = name
    \/ RegisteredBefore(name, D) /\ greatest # {} /\
          \E k \in greatest : k.response = "DNP"
    \/ RegisteredBefore(name, D) /\ \E k \in calls : k.name = name /\ k.date = D

\* C1: get_contacts_for_date(D) returns one row per name, for exactly the names
\* that rule (a), (b), (c) or (d) selects.  Where several calls of a name tie as
\* the greatest by (date, created_at), "the greatest call" of rule (c) is any one
\* of them: a name every one of which is DNP is returned, and a name none of
\* which is DNP (and that no other rule selects) is not.
C1_ContactsForDate ==
    \A D \in QueryDates : \A list \in get_contacts_for_date(D) :
        /\ \A i, j \in DOMAIN list : list[i].name = list[j].name => i = j
        /\ \A n \in RowNames(list) : ShownBy(n, D, GreatestCalls(n))
        /\ \A n \in {c.name : c \in contacts} \cup {k.name : k \in calls} :
              (\A k \in GreatestCalls(n) : ShownBy(n, D, {k})) /\
              ShownBy(n, D, GreatestCalls(n))
              => n \in RowNames(list)

\* A reading of "the greatest call" of every name that has calls: one of its
\* greatest calls.
Readings ==
    LET called == {k.name : k \in calls}
    IN {g \in [called -> calls] : \A n \in called : g[n] \in GreatestCalls(n)}

\* The Contact rows of a name that the selection rule matches for D.
MatchingRows(name, D, g) ==
    {c \in contacts :
        /\ c.name = name
        /\ \/ c.date = D
           \/ c.date < D /\ ~ \E k \in calls : k.name = name
           \/ c.date < D /\ name \in DOMAIN g /\ g[name].response = "DNP"
           \/ c.date < D /\ \E k \in calls : k.name = name /\ k.date = D}

EarliestCreated(name, D, g) == Min({c.created_at : c \in MatchingRows(name, D, g)})

ContactsNamed(name) == {c \in contacts : c.name = name}

CallsNamed(name) == {k \in calls : k.name = name}

\* The name has a single Contact row, registered on day1.
SingleOn(name, day1) ==
    /\ Cardinality(ContactsNamed(name)) = 1
    /\ \A c \in ContactsNamed(name) : c.date = day1

\* The name has a single call, logged for day2 with the given outcome.
OnlyCall(name, day2, outcome) ==
    /\ Cardinality(CallsNamed(name)) = 1
    /\ \A k \in CallsNamed(name) : k.date = day2 /\ k.response = outcome

\* C2: carry-forward, for days day1 < day2 < day3 and a name with a single
\* Contact row registered on day1: while the name has no calls it is in
\* get_contacts_for_date(day2); once its only call is one of outcome A logged
\* for day2 it is not in get_contacts_for_date(day3); if that call's outcome is
\* DNP it is.
C2_CarryForward ==
    \A n \in QueryNames : \A day1, day2, day3 \in QueryDates :
        day1 < day2 /\ day2 < day3 /\ SingleOn(n, day1) =>
            /\ CallsNamed(n) = {} =>
                  \A list \in get_contacts_for_date(day2) : n \in RowNames(list)
            /\ OnlyCall(n, day2, "A") =>
                  \A list \in get_contacts_for_date(day3) : n \notin RowNames(list)
            /\ OnlyCall(n, day2, "DNP") =>
                  \A list \in get_contacts_for_date(day3) : n \in RowNames(list)

\* The filters a summary is asked with.
FilterInputs == {None, List(<<>>), List(<<"DNP">>), List(<<"A", "UN">>)}

\* The display outcome of a name: the outcome of its greatest call, or UN.
DisplayOutcome(name, g) == IF name \in DOMAIN g THEN g[name].response ELSE "UN"

\* C6: get_all_contacts_summary(filters) with a non-empty filter returns exactly
\* the distinct contact names whose display outcome is in the filter, with an
\* empty or absent filter every distinct contact name, each name once, and the
\* dnp_count of a row is the number of DNP calls of its name.
C6_Summary ==
    \A f \in FilterInputs : \A list \in get_all_contacts_summary(f) :
        /\ \A i, j \in DOMAIN list : list[i].name = list[j].name => i = j
        /\ \E g \in Readings :
              RowNames(list) =
                 {n \in {c.name : c \in contacts} :
                     \/ f.none
                     \/ f.items = <<>>
                     \/ \E i \in DOMAIN f.items : f.items[i] = DisplayOutcome(n, g)}
        /\ \A i \in DOMAIN list :
              list[i].dnp_count =
                 Cardinality({k \in CallsNamed(list[i].name) : k.response = "DNP"})

\* C1 is witnessed where one name is carried forward by rule (c) alone, its
\* only call being DNP, and another name, registered before D and answered A, is
\* left out.
C1_Witness ==
    \E D \in QueryDates : \E n, m \in QueryNames :
        /\ RegisteredBefore(n, D) /\ ~ RegisteredOn(n, D)
        /\ \E k \in CallsNamed(n) : GreatestCalls(n) = {k} /\ k.response = "DNP"
        /\ \A k \in CallsNamed(n) : k.date # D
        /\ RegisteredBefore(m, D)
        /\ \E k \in CallsNamed(m) : GreatestCalls(m) = {k} /\ k.response = "A"
        /\ \E list \in get_contacts_for_date(D) :
              n \in RowNames(list) /\ m \notin RowNames(list)

C2_Witness ==
    \E n \in QueryNames : \E day1, day2, day3 \in QueryDates :
        /\ day1 < day2 /\ day2 < day3
        /\ SingleOn(n, day1)
        /\ OnlyCall(n, day2, "A")
        /\ \A list \in get_contacts_for_date(day2) : n \in RowNames(list)
        /\ \A list \in get_contacts_for_date(day3) : n \notin RowNames(list)

\* C6 is witnessed where the filter DNP keeps one of two contacts, with two DNP
\* calls counted, and the filter A, UN keeps the other.
C6_Witness ==
    /\ Cardinality({c.name : c \in contacts}) = 2
    /\ \E list \in get_all_contacts_summary(List(<<"DNP">>)) :
          Len(list) = 1 /\ list[1].dnp_count = 2
    /\ \E list \in get_all_contacts_summary(List(<<"A", "UN">>)) : Len(list) = 1

-----------------------------------------------------------------------------
(* The claims about add_contact. *)

\* A Contact row of the given date has the name, ignoring case.
SameNameOn(name, d) == \E c \in contacts : c.date = d /\ LOWER(c.name) = LOWER(name)

\* A Contact row of another date has the name, ignoring case.
SameNameElsewhere(name, d) ==
    \E c \in contacts : c.date # d /\ LOWER(c.name) = LOWER(name)

\* C3: add_contact(name, date, skip_global_check) fails with a duplicate error
\* and leaves the contacts unchanged whenever a Contact row of that date has the
\* name ignoring case, for both values of skip_global_check.
C3_DuplicateForDate ==
    [][\A name \in Names, d \in Dates, skip \in BOOLEAN :
          SameNameOn(name, d) /\ AddContact(name, d, skip)
          => /\ add_contact(ContactsDb, name, d, skip).raised = "ValueError"
             /\ contacts' = contacts]_vars

\* C4: when a Contact row of another date has the name ignoring case and none of
\* the given date has, add_contact without skip_global_check fails with a
\* duplicate error and inserts nothing, and add_contact with skip_global_check
\* inserts exactly one new row, with the name as given and the date, and returns
\* its id, which no row had.
C4_GlobalCheck ==
    \A name \in Names, d \in Dates :
        SameNameElsewhere(name, d) /\ ~ SameNameOn(name, d) =>
            /\ LET r == add_contact(ContactsDb, name, d, FALSE)
               IN r.raised = "ValueError" /\ r.db = ContactsDb
            /\ LET r == add_contact(ContactsDb, name, d, TRUE)
               IN /\ r.raised = "none"
                  /\ contacts \subseteq r.db.rows
                  /\ \E row \in r.db.rows :
                        /\ r.db.rows \ contacts = {row}
                        /\ row.name = name
                        /\ row.date = d
                        /\ row.id = r.value
                  /\ \A c \in contacts : c.id < r.value
                  /\ r.value > seq_contacts

\* C4 is witnessed where add_contact with skip_global_check has added a name that
\* an older row of another date has in another case.
C4_Witness ==
    \E c1, c2 \in contacts :
        /\ c1.id < c2.id
        /\ c1.date # c2.date
        /\ c1.name # c2.name
        /\ LOWER(c1.name) = LOWER(c2.name)
        /\ ~ SameNameOn(c1.name, IsoDate(2025, 1, 2))
        /\ add_contact(ContactsDb, c1.name, IsoDate(2025, 1, 2), FALSE).raised = "ValueError"

\* C5: no two Contact rows have the same name string and the same date, also
\* when the statements of several add_contact requests interleave.
C5_UniqueNameDate ==
    \A c1, c2 \in contacts : c1.name = c2.name /\ c1.date = c2.date => c1 = c2

\* C5 is witnessed where a request passed the existence check, another request
\* inserted the same name and date before it, and its own insert was refused.
C5_Witness ==
    \E t \in Threads : requests[t].raised = "IntegrityError"

-----------------------------------------------------------------------------
(* The claims about the statistics. *)

CallsOn(D, outcome) == {k \in calls : k.date = D /\ k.response = outcome}

\* C7: get_today_stats(D) has the six outcome keys, each the number of calls
\* dated D with that outcome, total is their sum and successful is A + B + C.
C7_TodayStats ==
    \A D \in Dates :
        LET stats == get_today_stats(D)
        IN /\ DOMAIN stats =
                 {"A", "B", "C", "NA", "DNP", "CATCHUP", "total", "successful"}
           /\ \A r \in {"A", "B", "C", "NA", "DNP", "CATCHUP"} :
                 stats[r] = Cardinality(CallsOn(D, r))
           /\ stats.total =
                 stats.A + stats.B + stats.C + stats.NA + stats.DNP + stats.CATCHUP
           /\ stats.successful = stats.A + stats.B + stats.C

\* C7 is witnessed by a day with a successful call and a legacy CATCHUP call.
C7_Witness ==
    \E D \in Dates :
        /\ get_today_stats(D).CATCHUP = 1
        /\ get_today_stats(D).successful = 1
        /\ get_today_stats(D).total = 2

\* The months a calendar is asked for.
Years == {2024, 2025}

Months == 1..12

\* The date lies in the month.
InMonth(d, year, month) == d \div 100 = year * 100 + month

HasTarget(d) == \E t \in daily_targets : t.date = d

\* C8: the keys of get_month_achievements(year, month) are the dates of the month
\* that have a Target row, and the value of a key is true iff the calls of that
\* date with outcome A, B or C are at least as many as its target.
C8_MonthAchievements ==
    \A year \in Years, month \in Months :
        LET achievements == get_month_achievements(year, month)
        IN /\ DOMAIN achievements =
                 {d \in Dates : HasTarget(d) /\ InMonth(d, year, month)}
           /\ \A d \in DOMAIN achievements :
                 achievements[d] <=>
                    \A t \in daily_targets : t.date = d =>
                       Cardinality(CallsOn(d, "A") \cup CallsOn(d, "B") \cup CallsOn(d, "C"))
                          >= t.target

\* C8 is witnessed by a January with a date whose successful calls equal its
\* target, a date with a target and no calls, and a December date with calls and
\* no target.
C8_Witness ==
    LET january == get_month_achievements(2025, 1)
    IN /\ DOMAIN january = {IsoDate(2025, 1, 1), IsoDate(2025, 1, 2)}
       /\ january[IsoDate(2025, 1, 1)]
       /\ CallsOn(IsoDate(2025, 1, 1), "A") # {}
       /\ ~ january[IsoDate(2025, 1, 2)]
       /\ CallsOn(IsoDate(2024, 12, 31), "B") # {}
       /\ DOMAIN get_month_achievements(2024, 12) = {}

-----------------------------------------------------------------------------
(* The claim about the batch. *)

\* The names of a batch as the handler reads them: stripped, the blank ones dropped.
NonBlank(names) ==
    LET NotBlank(name) == name # <<>>
    IN SelectSeq([i \in DOMAIN names |-> strip(names[i])], NotBlank)

\* Where each name of a batch belongs: in skipped if today's list has it, from
\* before the batch or from an earlier name of the batch, and in added otherwise.
RECURSIVE Sorted(_, _, _, _)
Sorted(names, listed, added, skipped) ==
    IF names = <<>> THEN [added |-> added, skipped |-> skipped]
    ELSE IF Head(names) \in listed
    THEN Sorted(Tail(names), listed, added, Append(skipped, Head(names)))
    ELSE Sorted(Tail(names), listed \cup {Head(names)}, Append(added, Head(names)),
                skipped)

\* C10: the batch takes every non-blank stripped name, in order, to exactly one
\* of added and skipped: to skipped a name that today's list has already, also
\* from earlier in the batch, and to added every other name, those after a
\* skipped name too; and it inserts one new Contact row of today for each name
\* in added, and no other row.
C10_Batch ==
    \A names \in BatchInputs :
        names # <<>> =>
            LET r == add_multiple_to_today(ContactsDb, names)
                expected == Sorted(NonBlank(names),
                                   {c.name : c \in {c \in contacts : c.date = today}},
                                   <<>>, <<>>)
                inserted == r.db.rows \ contacts
            IN /\ r.status = 200
               /\ r.added = expected.added
               /\ r.skipped = expected.skipped
               /\ Len(r.added) + Len(r.skipped) = Len(NonBlank(names))
               /\ contacts \subseteq r.db.rows
               /\ Cardinality(inserted) = Len(r.added)
               /\ \A c \in inserted : c.date = today
               /\ {c.name : c \in inserted} = {r.added[i] : i \in DOMAIN r.added}

\* C10 is witnessed by the answer to a batch whose second name was refused and
\* whose third name was added after it.
C10_Witness ==
    /\ reply.route = "/add-multiple-to-today"
    /\ reply.added = <<Bob, bob>>
    /\ reply.skipped = <<Bob>>
    /\ \E c \in contacts : c.name = bob /\ c.date = today

-----------------------------------------------------------------------------
(* The claim about the outcomes that are written. *)

\* What C11 asks of the store and of the requests that the given test calls
\* out of the set: every stored call has an outcome in {A, B, C, NA, DNP}, no
\* date counts a CATCHUP, and such a request is answered with an error and
\* leaves the calls as they are.
ClosedOutcomes(OutOfSet(_)) ==
    /\ \A k \in calls : k.response \in {"A", "B", "C", "NA", "DNP"}
    /\ \A D \in Dates : get_today_stats(D).CATCHUP = 0
    /\ \A response \in ResponseTexts :
          OutOfSet(response) =>
             /\ \A name \in CallNames, d \in CallDates :
                   LET r == post_add_call([rows |-> calls, seq |-> seq_calls],
                                          name, response, d)
                   IN r.status >= 400 /\ r.db.rows = calls
             /\ \A id \in 0..MaxCallId :
                   LET r == post_update_call(calls, id, response)
                   IN r.status >= 400 /\ r.db = calls

\* C11 as stated: after any add-call and update-call requests every stored call
\* has an outcome in {A, B, C, NA, DNP}, CATCHUP is never written, and a request
\* whose outcome, as sent, is outside that set is rejected with an error and
\* leaves the calls unchanged.
C11_OutcomeAsSent ==
    LET OutOfSet(response) == response \notin ValidResponses
    IN ClosedOutcomes(OutOfSet)

\* C11, amended: the same, where the request that is rejected is one whose
\* outcome is outside the set after the handler has put it in upper case; an
\* outcome sent in lower case is accepted and stored in upper case.
C11_ClosedOutcomes ==
    LET OutOfSet(response) == upper(response) \notin ValidResponses
    IN ClosedOutcomes(OutOfSet)

\* C11 is witnessed where a call is stored and a request to change an outcome
\* has just been refused for its outcome.
C11_Witness ==
    /\ calls # {}
    /\ reply.route = "/update-call"
    /\ reply.error = "Invalid response type"
    /\ post_update_call(calls, 1, TextCATCHUP).status = 400

-----------------------------------------------------------------------------
(* The claim about the operations by id. *)

\* C12: update_call, delete_call and delete_contact given an id that matches no
\* row return False, which the handler answers with a not-found error, and leave
\* the three tables unchanged; given an id that matches a row they return True
\* and change that row alone: update_call writes its outcome and keeps its id,
\* name, date and created_at, the deletes remove it.
C12_ById ==
    [][/\ \A id \in 1..MaxCallId, response \in ByIdResponses :
            upper(response) \in ValidResponses /\ PostUpdateCall(id, response) =>
               LET outcome == Outcome(upper(response))
                   matched == {k \in calls : k.id = id}
               IN /\ update_call(calls, id, outcome).value = (matched # {})
                  /\ UNCHANGED <<contacts, daily_targets, seq_contacts, seq_calls>>
                  /\ IF matched = {}
                     THEN reply'.status = 404 /\ calls' = calls
                     ELSE /\ reply'.status = 200
                          /\ Cardinality(matched) = 1
                          /\ calls' = (calls \ matched) \cup
                                {[id |-> k.id, name |-> k.name, response |-> outcome,
                                  date |-> k.date, created_at |-> k.created_at] :
                                    k \in matched}
       /\ \A id \in 1..MaxCallId :
            PostDeleteCall(id) =>
               LET matched == {k \in calls : k.id = id}
               IN /\ delete_call(calls, id).value = (matched # {})
                  /\ UNCHANGED <<contacts, daily_targets, seq_contacts, seq_calls>>
                  /\ Cardinality(matched) <= 1
                  /\ calls' = calls \ matched
                  /\ reply'.status = IF matched = {} THEN 404 ELSE 200
       /\ \A id \in 1..MaxContactId :
            PostDeleteContact(id) =>
               LET matched == {c \in contacts : c.id = id}
               IN /\ delete_contact(contacts, id).value = (matched # {})
                  /\ UNCHANGED <<calls, daily_targets, seq_contacts, seq_calls>>
                  /\ Cardinality(matched) <= 1
                  /\ contacts' = contacts \ matched
                  /\ reply'.status = IF matched = {} THEN 404 ELSE 200]_vars

\* C12 is witnessed where, with rows in all three tables, a request to change
\* the outcome of a call that was deleted has been answered with not found, and
\* the other call has the outcome an earlier request gave it.
C12_Witness ==
    /\ reply.route = "/update-call"
    /\ reply.status = 404
    /\ reply.error = "Call not found"
    /\ contacts # {}
    /\ daily_targets # {}
    /\ \E k \in calls : k.response = "DNP"
    /\ Cardinality(calls) < seq_calls

-----------------------------------------------------------------------------
(* The claim about the encouraging message. *)

\* The arguments the message is asked for.
MaxSuccessful == 3
MaxTarget == 12

\* The number that a text of decimal digits writes; -1 for any other text.
RECURSIVE ParseDigits(_)
ParseDigits(text) ==
    IF text = <<>> \/ \E i \in DOMAIN text : text[i] < 48 \/ text[i] > 57 THEN 0 - 1
    ELSE IF Len(text) = 1 THEN text[1] - 48
    ELSE ParseDigits(SubSeq(text, 1, Len(text) - 1)) * 10 + (text[Len(text)] - 48)

\* The text is "Great, N to go!" for the decimal N that writes the number.
GreatToGo(text, number) ==
    /\ Len(text) > Len(GreatText) + Len(ToGoText)
    /\ SubSeq(text, 1, Len(GreatText)) = GreatText
    /\ SubSeq(text, Len(text) - Len(ToGoText) + 1, Len(text)) = ToGoText
    /\ ParseDigits(SubSeq(text, Len(GreatText) + 1, Len(text) - Len(ToGoText))) = number

\* C13: with remaining = target - successful_count, get_encouraging_message
\* returns for an outcome A, B or C the Rampage message iff remaining = 1, the
\* 'Target achieved' message iff remaining <= 0, and otherwise the message
\* 'Great, {remaining} to go!' with the value of remaining in it; for NA the
\* followup message and for DNP the retry message, whatever remaining is.
C13_EncouragingMessage ==
    \A successful_count \in 0..MaxSuccessful \cup {get_today_stats(D).successful : D \in Dates},
       target \in 0..MaxTarget \cup {TargetOrZero(D) : D \in Dates} :
        LET remaining == target - successful_count
        IN /\ \A response \in {"A", "B", "C"} :
                 LET m == get_encouraging_message(response, successful_count, target)
                 IN /\ (m.type = "rampage" /\ m.text = RampageText) <=> remaining = 1
                    /\ m.type = "rampage" \/ m.text = RampageText => remaining = 1
                    /\ (m.type = "success" /\ m.text = AchievedText) <=> remaining <= 0
                    /\ m.text = AchievedText => remaining <= 0
                    /\ remaining > 1 =>
                          m.type = "success" /\ GreatToGo(m.text, remaining)
           /\ LET m == get_encouraging_message("NA", successful_count, target)
              IN m.type = "followup" /\ m.text = FollowupText
           /\ LET m == get_encouraging_message("DNP", successful_count, target)
              IN m.type = "retry" /\ m.text = RetryText

\* C13 is witnessed by the answer to a successful call that leaves eleven to go.
C13_Witness ==
    /\ reply.route = "/add-call"
    /\ reply.status = 200
    /\ \E D \in MessageDates :
          /\ TargetOrZero(D) = 12
          /\ get_today_stats(D).successful = 1
          /\ reply.message = get_encouraging_message("A", 1, 12)
    /\ GreatToGo(reply.message.text, 11)

-----------------------------------------------------------------------------
(* The claim about the global check under concurrent requests. *)

\* C14: when every contact is added by add_contact with the global check, no two
\* Contact rows, of any dates, have names that are equal ignoring case, also
\* when the statements of two add_contact requests interleave between their
\* existence checks and their inserts.
C14_UniqueIgnoringCase ==
    \A c1, c2 \in contacts : LOWER(c1.name) = LOWER(c2.name) => c1 = c2

====
